---------------------------- MODULE Spec2Model ----------------------------
(***************************************************************************)
(* A model of the D2C ROI calculator repository: the three copies of the   *)
(* ROAS calculator (roas_calculator.py, simple_calculator.py,              *)
(* web_calculator.py) and the merchant ROI calculator (roi_calculator.py). *)
(*                                                                         *)
(* Each of the four scripts is a program of its own; a behaviour of this   *)
(* model is the life of ONE process, chosen in Init by `app`.  A run of a  *)
(* script's main() is a single-threaded, synchronous request/response      *)
(* cycle and is one atomic action here.  A fifth kind of process,          *)
(* "ROICalculator", is a caller of the ROICalculator class itself: it      *)
(* builds one calculator and calls its impact methods one at a time.       *)
(*                                                                         *)
(* Numbers.  Python floats are modelled as exact rationals, records        *)
(* [n |-> numerator, d |-> denominator] in lowest terms with d > 0.  The   *)
(* model therefore leaves out binary rounding, overflow to inf and nan.    *)
(* A float division by zero raises ZeroDivisionError in Python; TrueDiv    *)
(* models that with the `raised` field of its result.                      *)
(*                                                                         *)
(* Strings.  An f-string such as f"{x:.2f}" is modelled by the integer     *)
(* number of 10^-places units it prints (980 for "9.80"), the exact value  *)
(* rounded to the nearest unit.  Where the exact value lies halfway        *)
(* between two units (0.105 at two decimals) the model prints the even     *)
(* one; the float Python holds there is a little off the halfway point     *)
(* and Python prints whichever unit is nearer to it, so on such inputs     *)
(* the last digit of the model can differ from the program's.  The prefix  *)
(* "$", the suffix "x" or "%" and the thousands separators carry no        *)
(* information and are not modelled; parsing such a string back            *)
(* (float(s.replace(...))) is modelled by ParseFloat.                      *)
(*                                                                         *)
(* Objects.  A Campaign, a MerchantMetrics, an UpgradeMetrics and a        *)
(* ROICalculator are mutable Python objects, modelled as records.  The     *)
(* record an object holds after the calls made with it is given by the     *)
(* *_after_calls operators and is what the state keeps.  Two history       *)
(* variables, last_inputs and built_calculator, remember the record as     *)
(* its constructor returned it; the program does not read them.            *)
(***************************************************************************)
EXTENDS Integers, Sequences, FiniteSets, TLC

VARIABLES
    app,                \* which script this process runs
    status,             \* "idle" before the first run of main, then "ok" or the exception raised
    campaign,           \* main's local `campaign` of the last run
    traditional_roas,   \* main's local `traditional_roas` of the last run
    adjusted_roas,      \* main's local `adjusted_roas` of the last run
    display,            \* what the last run rendered: label -> printed number
    session_state,      \* web_calculator: st.session_state (a mapping from keys to values)
    submitted,          \* web_calculator: the form's submit flag in the last run
    calculator,         \* roi_calculator: the ROICalculator main built (its two records)
    result,             \* roi_calculator: the bundle the last impact call returned
    growth_summary_df,  \* roi_calculator: the table create_growth_summary_table returned
    feature_tables,     \* roi_calculator: the seven per-feature tables main rendered
    last_inputs,        \* history: the Campaign of the four inputs of the latest run that
                        \* read them (web_calculator: that submitted, or the first run)
    built_calculator    \* history: the ROICalculator as its constructor last returned it

vars == <<app, status, campaign, traditional_roas, adjusted_roas, display,
          session_state, submitted, calculator, result, growth_summary_df,
          feature_tables, last_inputs, built_calculator>>

roasVars == <<campaign, traditional_roas, adjusted_roas, display, session_state, submitted,
              last_inputs>>
roiVars == <<calculator, result, growth_summary_df, feature_tables, built_calculator>>

-----------------------------------------------------------------------------
(* Bounds of the model.                                                    *)

\* How many widget steps above zero are enumerated for a currency input.
MaxAmountSteps == 1
\* How many slider steps above zero are enumerated for a percentage input.
MaxPercentSteps == 1
\* How many hundreds either side of zero are enumerated for a number typed
\* at the console.
MaxConsoleSteps == 2
\* How many widget steps above zero are enumerated for a merchant metric.
MaxMetricSteps == 1

-----------------------------------------------------------------------------
(* Exact rational arithmetic standing for Python's float arithmetic.       *)

Abs(i) == IF i < 0 THEN -i ELSE i

RECURSIVE GCD(_, _)
GCD(a, b) == IF b = 0 THEN a ELSE GCD(b, a % b)

\* The rational n/d (d # 0) in lowest terms with a positive denominator.
Rat(n, d) ==
    LET g == GCD(Abs(n), Abs(d))
        s == IF d < 0 THEN -1 ELSE 1
    IN  [n |-> s * (n \div g), d |-> s * (d \div g)]

Num(i) == [n |-> i, d |-> 1]
Zero == Num(0)
One == Num(1)
Hundred == Num(100)

Add(x, y) == Rat(x.n * y.d + y.n * x.d, x.d * y.d)
Sub(x, y) == Rat(x.n * y.d - y.n * x.d, x.d * y.d)
\* The product, with the common factors cancelled before multiplying.
Mul(x, y) ==
    LET g1 == GCD(Abs(x.n), y.d)
        g2 == GCD(Abs(y.n), x.d)
    IN  [n |-> (x.n \div g1) * (y.n \div g2), d |-> (x.d \div g2) * (y.d \div g1)]
IsZero(x) == x.n = 0

\* Python's x / y on floats: raises ZeroDivisionError when y == 0.
TrueDiv(x, y) ==
    IF IsZero(y)
    THEN [raised |-> "ZeroDivisionError", value |-> Zero]
    ELSE [raised |-> "none", value |-> Mul(x, Rat(y.d, y.n))]

\* x / 100 with the literal, non-zero divisor 100.
Div100(x) == Rat(x.n, x.d * 100)

RECURSIVE Pow10(_)
Pow10(k) == IF k = 0 THEN 1 ELSE 10 * Pow10(k - 1)

\* f"{x:.<places>f}": x rounded half-to-even to `places` decimals, as the
\* integer number of 10^-places units printed.
FormatFixed(x, places) ==
    LET num == x.n * Pow10(places)
        q == num \div x.d
        r == num % x.d
    IN  IF 2 * r > x.d THEN q + 1
        ELSE IF 2 * r < x.d THEN q
        ELSE IF q % 2 = 0 THEN q ELSE q + 1

\* float(s) of a string printed with two decimals: `units` hundredths.
ParseFloat(units) == Rat(units, 100)

-----------------------------------------------------------------------------
(* Campaign records.                                                       *)

Campaign(revenue, ad_spend, new_buyer_share, discount_percentage) ==
    [revenue |-> revenue, ad_spend |-> ad_spend,
     new_buyer_share |-> new_buyer_share,
     discount_percentage |-> discount_percentage]

\* The value the model's locals hold before main has run.
NoCampaign == Campaign(Zero, Zero, Zero, Zero)

-----------------------------------------------------------------------------
(* simple_calculator.py                                                    *)

Simple_discount_amount(c) ==
    LET new_buyer_ad_spend == Mul(c.ad_spend, Div100(c.new_buyer_share))
    IN  Mul(new_buyer_ad_spend, Div100(c.discount_percentage))

\* A variant without the ad_spend == 0 guard.
Simple_traditional_roas_unguarded(c) == TrueDiv(c.revenue, c.ad_spend)

Simple_calculate_traditional_roas(c) ==
    IF IsZero(c.ad_spend)
    THEN [raised |-> "none", value |-> Zero]
    ELSE TrueDiv(c.revenue, c.ad_spend)

\* A variant that treats every non-positive total cost as invalid and
\* returns the sentinel for it.
Simple_adjusted_roas_rejects_nonpositive_cost(c) ==
    LET total_cost == Add(c.ad_spend, Simple_discount_amount(c))
    IN  IF total_cost.n <= 0
        THEN [raised |-> "none", value |-> Zero]
        ELSE TrueDiv(c.revenue, total_cost)

Simple_calculate_adjusted_roas(c) ==
    LET total_cost == Add(c.ad_spend, Simple_discount_amount(c))
    IN  IF IsZero(total_cost)
        THEN [raised |-> "none", value |-> Zero]
        ELSE TrueDiv(c.revenue, total_cost)

\* The fields of main's Campaign object after the calls main makes with it
\* (both ROAS functions and the discount_amount property): no statement of
\* simple_calculator.py assigns to a field of a Campaign.
Simple_campaign_after_calls(c) == c

\* main(): one run of the console program on the four numbers typed in.
Simple_main(revenue, ad_spend, new_buyer_share, discount_percentage) ==
    LET c == Campaign(revenue, ad_spend, new_buyer_share, discount_percentage)
        t == Simple_calculate_traditional_roas(c)
        a == Simple_calculate_adjusted_roas(c)
        exc == IF t.raised # "none" THEN t.raised ELSE a.raised
    IN  [status |-> IF exc = "none" THEN "ok" ELSE exc,
         campaign |-> Simple_campaign_after_calls(c),
         traditional_roas |-> t.value,
         adjusted_roas |-> a.value,
         display |->
            IF exc # "none" THEN << >>
            ELSE ("Ad Spend" :> FormatFixed(c.ad_spend, 2))
              @@ ("New Buyer Share" :> FormatFixed(c.new_buyer_share, 1))
              @@ ("New Buyer Ad Spend" :>
                    FormatFixed(Mul(c.ad_spend, Div100(c.new_buyer_share)), 2))
              @@ ("Discount Percentage" :> FormatFixed(c.discount_percentage, 1))
              @@ ("Discount Amount" :> FormatFixed(Simple_discount_amount(c), 2))
              @@ ("Total Cost" :>
                    FormatFixed(Add(c.ad_spend, Simple_discount_amount(c)), 2))
              @@ ("Traditional ROAS" :> FormatFixed(t.value, 2))
              @@ ("Adjusted ROAS" :> FormatFixed(a.value, 2))]

-----------------------------------------------------------------------------
(* roas_calculator.py                                                      *)

\* A variant of this copy that takes the discount on the revenue instead of
\* on the ad spend.
Roas_discount_amount_on_revenue(c) ==
    Mul(Mul(c.revenue, Div100(c.new_buyer_share)), Div100(c.discount_percentage))

Roas_discount_amount(c) ==
    LET new_buyer_ad_spend == Mul(c.ad_spend, Div100(c.new_buyer_share))
    IN  Mul(new_buyer_ad_spend, Div100(c.discount_percentage))

Roas_calculate_traditional_roas(c) ==
    IF IsZero(c.ad_spend)
    THEN [raised |-> "none", value |-> Zero]
    ELSE TrueDiv(c.revenue, c.ad_spend)

\* A variant whose total cost leaves the discount out.
Roas_adjusted_roas_without_discount(c) ==
    LET total_cost == c.ad_spend
    IN  IF IsZero(total_cost)
        THEN [raised |-> "none", value |-> Zero]
        ELSE TrueDiv(c.revenue, total_cost)

Roas_calculate_adjusted_roas(c) ==
    LET total_cost == Add(c.ad_spend, Roas_discount_amount(c))
    IN  IF IsZero(total_cost)
        THEN [raised |-> "none", value |-> Zero]
        ELSE TrueDiv(c.revenue, total_cost)

\* The fields of main's Campaign object after the calls main makes with it:
\* no statement of roas_calculator.py assigns to a field of a Campaign.
Roas_campaign_after_calls(c) == c

\* main(): one Streamlit run on the current widget values.
Roas_main(revenue, ad_spend, new_buyer_share, discount_percentage) ==
    LET c == Campaign(revenue, ad_spend, new_buyer_share, discount_percentage)
        t == Roas_calculate_traditional_roas(c)
        a == Roas_calculate_adjusted_roas(c)
        exc == IF t.raised # "none" THEN t.raised ELSE a.raised
    IN  [status |-> IF exc = "none" THEN "ok" ELSE exc,
         campaign |-> Roas_campaign_after_calls(c),
         traditional_roas |-> t.value,
         adjusted_roas |-> a.value,
         display |->
            IF exc # "none" THEN << >>
            ELSE ("Ad Spend" :> FormatFixed(c.ad_spend, 2))
              @@ ("New Buyer Share" :> FormatFixed(c.new_buyer_share, 1))
              @@ ("New Buyer Ad Spend" :>
                    FormatFixed(Mul(c.ad_spend, Div100(c.new_buyer_share)), 2))
              @@ ("Discount Percentage" :> FormatFixed(c.discount_percentage, 1))
              @@ ("Discount Amount" :> FormatFixed(Roas_discount_amount(c), 2))
              @@ ("Total Cost" :>
                    FormatFixed(Add(c.ad_spend, Roas_discount_amount(c)), 2))
              @@ ("Traditional ROAS" :> FormatFixed(t.value, 2))
              @@ ("Adjusted ROAS" :> FormatFixed(a.value, 2))]

-----------------------------------------------------------------------------
(* web_calculator.py                                                       *)

Web_discount_amount(c) ==
    LET new_buyer_ad_spend == Mul(c.ad_spend, Div100(c.new_buyer_share))
    IN  Mul(new_buyer_ad_spend, Div100(c.discount_percentage))

\* A variant that takes the share as a fraction, not a percentage.
Web_new_buyer_ad_spend_share_as_fraction(c) == Mul(c.ad_spend, c.new_buyer_share)

Web_new_buyer_ad_spend(c) == Mul(c.ad_spend, Div100(c.new_buyer_share))

Web_calculate_traditional_roas(c) ==
    IF IsZero(c.ad_spend)
    THEN [raised |-> "none", value |-> Zero]
    ELSE TrueDiv(c.revenue, c.ad_spend)

\* A variant whose total cost subtracts the discount.
Web_adjusted_roas_discount_subtracted(c) ==
    LET total_cost == Sub(c.ad_spend, Web_discount_amount(c))
    IN  IF IsZero(total_cost)
        THEN [raised |-> "none", value |-> Zero]
        ELSE TrueDiv(c.revenue, total_cost)

Web_calculate_adjusted_roas(c) ==
    LET total_cost == Add(c.ad_spend, Web_discount_amount(c))
    IN  IF IsZero(total_cost)
        THEN [raised |-> "none", value |-> Zero]
        ELSE TrueDiv(c.revenue, total_cost)

\* The waterfall chart, by the text of its three bars (two decimals each).
create_cost_breakdown_chart(c) ==
    ("Base Ad Spend" :> FormatFixed(c.ad_spend, 2))
    @@ ("New Buyer Discount" :> FormatFixed(Web_discount_amount(c), 2))
    @@ ("Total Cost" :> FormatFixed(Add(c.ad_spend, Web_discount_amount(c)), 2))

\* The delta text of the "Adjusted ROAS" metric:
\* (adjusted_roas - traditional_roas) / traditional_roas * 100, one decimal.
Web_vs_traditional(t, a) ==
    LET q == TrueDiv(Sub(a, t), t)
    IN  [raised |-> q.raised, value |-> FormatFixed(Mul(q.value, Hundred), 1)]

\* A variant in which the chart builder adds the discount to the campaign's
\* ad_spend instead of computing the total in a local.
Web_campaign_total_cost_accumulated(c) ==
    [c EXCEPT !.ad_spend = Add(c.ad_spend, Web_discount_amount(c))]

\* The fields of the Campaign object after the calls main makes with it (both
\* ROAS functions, the two properties, create_cost_breakdown_chart and the
\* metrics): no statement of web_calculator.py assigns to a field of a
\* Campaign.
Web_campaign_after_calls(c) == c

\* The part of main() after the campaign is chosen: both ROAS values, the
\* chart and the four metrics, rendered in the order of the source.  An
\* exception ends the run with what was rendered before it.
Web_render(c) ==
    LET t == Web_calculate_traditional_roas(c)
        a == Web_calculate_adjusted_roas(c)
        early == IF t.raised # "none" THEN t.raised ELSE a.raised
        vs == Web_vs_traditional(t.value, a.value)
        left == create_cost_breakdown_chart(c)
             @@ ("Traditional ROAS" :> FormatFixed(t.value, 2))
             @@ ("New Buyer Ad Spend" :> FormatFixed(Web_new_buyer_ad_spend(c), 2))
             @@ ("New Buyer Share" :> FormatFixed(c.new_buyer_share, 1))
        right == ("Adjusted ROAS" :> FormatFixed(a.value, 2))
              @@ ("vs Traditional" :> vs.value)
              @@ ("Discount Amount" :> FormatFixed(Web_discount_amount(c), 2))
              @@ ("Discount Percentage" :> FormatFixed(c.discount_percentage, 1))
    IN  [status |-> IF early # "none" THEN early
                    ELSE IF vs.raised # "none" THEN vs.raised ELSE "ok",
         campaign |-> Web_campaign_after_calls(c),
         traditional_roas |-> t.value,
         adjusted_roas |-> a.value,
         display |-> IF early # "none" THEN << >>
                     ELSE IF vs.raised # "none" THEN left
                     ELSE left @@ right]

\* A variant of main that stores a submitted campaign but renders the one
\* the session held before the submission.
Web_main_renders_previous_campaign(ss, sub, revenue, ad_spend, new_buyer_share, discount_percentage) ==
    LET new == Campaign(revenue, ad_spend, new_buyer_share, discount_percentage)
        build == sub \/ "campaign" \notin DOMAIN ss
        shown == IF "campaign" \in DOMAIN ss THEN ss["campaign"] ELSE new
    IN  [session_state |-> IF build THEN ("campaign" :> new) @@ ss ELSE ss,
         run |-> Web_render(shown)]

\* A variant of main that builds the campaign from the form's values in
\* every run and never reads the session.
Web_main_always_rebuilds(ss, sub, revenue, ad_spend, new_buyer_share, discount_percentage) ==
    LET c == Campaign(revenue, ad_spend, new_buyer_share, discount_percentage)
    IN  [session_state |-> ("campaign" :> c) @@ ss,
         run |-> Web_render(c)]

\* main(): one Streamlit run.  `sub` is the form's submit flag; the four
\* numbers are the form's values in this run; `ss` is st.session_state.
\* The session holds a reference to the object main works with (line 139
\* stores it, line 141 fetches it), so what the session holds after the run
\* is that object as the run left it.
Web_main(ss, sub, revenue, ad_spend, new_buyer_share, discount_percentage) ==
    LET build == sub \/ "campaign" \notin DOMAIN ss
        c == IF build
             THEN Campaign(revenue, ad_spend, new_buyer_share, discount_percentage)
             ELSE ss["campaign"]
        stored == IF build THEN ("campaign" :> c) @@ ss ELSE ss
    IN  [session_state |-> ("campaign" :> Web_campaign_after_calls(c)) @@ stored,
         run |-> Web_render(c)]

-----------------------------------------------------------------------------
(* The inputs a run can receive.                                           *)

\* st.number_input(min_value=0.0, value=default, step=step)
AmountInputs(default, step) ==
    {Num(k * step) : k \in 0..MaxAmountSteps} \cup {Num(default)}

\* st.slider(min_value=0.0, max_value=100.0, value=default, step=1.0)
PercentInputs(default) ==
    {Num(k) : k \in 0..MaxPercentSteps} \cup {Num(default), Num(100)}

\* float(input(...)): any number, negative ones included.
ConsoleAmounts ==
    {Num(k * 100) : k \in (-MaxConsoleSteps)..MaxConsoleSteps} \cup {Num(1000)}
ConsolePercents ==
    {Num(k * 100) : k \in (-MaxConsoleSteps)..MaxConsoleSteps} \cup {Num(10), Num(20)}

-----------------------------------------------------------------------------
(* roi_calculator.py                                                       *)

\* class GrowthScenario(Enum), by value.
GrowthScenario == {"Low", "Medium", "High"}

\* The seven impact methods of ROICalculator.  Each holds its own table of
\* deltas (0.01 is Rat(1, 100), 0.005 is Rat(5, 1000)) and returns a dict
\* of formatted strings, modelled as a mapping from the dict's keys to the
\* numbers printed.

\* A variant that takes profit_margin as a fraction, not a percentage.
checkout_customization_impact_margin_as_fraction(merchant_metrics, scenario) ==
    LET conversion_increase == ("Low" :> Rat(1, 100)) @@ ("Medium" :> Rat(3, 100))
                               @@ ("High" :> Rat(5, 100))
        new_conversion_rate == Mul(merchant_metrics.current_conversion_rate,
                                   Add(One, conversion_increase[scenario]))
        additional_orders == Mul(merchant_metrics.annual_transactions,
                                 conversion_increase[scenario])
        revenue_impact == Mul(additional_orders, merchant_metrics.aov)
        margin_impact == Mul(revenue_impact, merchant_metrics.profit_margin)
    IN  ("Conversion Rate Increase" :>
            FormatFixed(Mul(conversion_increase[scenario], Hundred), 1))
        @@ ("New Conversion Rate" :> FormatFixed(new_conversion_rate, 2))
        @@ ("Additional Orders" :> FormatFixed(additional_orders, 0))
        @@ ("Revenue Impact" :> FormatFixed(revenue_impact, 2))
        @@ ("Margin Impact" :> FormatFixed(margin_impact, 2))

calculate_checkout_customization_impact(merchant_metrics, scenario) ==
    LET conversion_increase == ("Low" :> Rat(1, 100)) @@ ("Medium" :> Rat(3, 100))
                               @@ ("High" :> Rat(5, 100))
        new_conversion_rate == Mul(merchant_metrics.current_conversion_rate,
                                   Add(One, conversion_increase[scenario]))
        additional_orders == Mul(merchant_metrics.annual_transactions,
                                 conversion_increase[scenario])
        revenue_impact == Mul(additional_orders, merchant_metrics.aov)
        margin_impact == Mul(revenue_impact, Div100(merchant_metrics.profit_margin))
    IN  ("Conversion Rate Increase" :>
            FormatFixed(Mul(conversion_increase[scenario], Hundred), 1))
        @@ ("New Conversion Rate" :> FormatFixed(new_conversion_rate, 2))
        @@ ("Additional Orders" :> FormatFixed(additional_orders, 0))
        @@ ("Revenue Impact" :> FormatFixed(revenue_impact, 2))
        @@ ("Margin Impact" :> FormatFixed(margin_impact, 2))

\* A variant whose revenue impact multiplies by the new AOV, not by its increase.
checkout_upsell_impact_whole_aov(merchant_metrics, scenario) ==
    LET aov_increase == ("Low" :> Rat(5, 100)) @@ ("Medium" :> Rat(10, 100))
                        @@ ("High" :> Rat(20, 100))
        new_aov == Mul(merchant_metrics.aov, Add(One, aov_increase[scenario]))
        revenue_impact == Mul(merchant_metrics.annual_transactions, new_aov)
        margin_impact == Mul(revenue_impact, Div100(merchant_metrics.profit_margin))
    IN  ("AOV Increase" :> FormatFixed(Mul(aov_increase[scenario], Hundred), 1))
        @@ ("New AOV" :> FormatFixed(new_aov, 2))
        @@ ("Revenue Impact" :> FormatFixed(revenue_impact, 2))
        @@ ("Margin Impact" :> FormatFixed(margin_impact, 2))

calculate_checkout_upsell_impact(merchant_metrics, scenario) ==
    LET aov_increase == ("Low" :> Rat(5, 100)) @@ ("Medium" :> Rat(10, 100))
                        @@ ("High" :> Rat(20, 100))
        new_aov == Mul(merchant_metrics.aov, Add(One, aov_increase[scenario]))
        revenue_impact == Mul(merchant_metrics.annual_transactions,
                              Sub(new_aov, merchant_metrics.aov))
        margin_impact == Mul(revenue_impact, Div100(merchant_metrics.profit_margin))
    IN  ("AOV Increase" :> FormatFixed(Mul(aov_increase[scenario], Hundred), 1))
        @@ ("New AOV" :> FormatFixed(new_aov, 2))
        @@ ("Revenue Impact" :> FormatFixed(revenue_impact, 2))
        @@ ("Margin Impact" :> FormatFixed(margin_impact, 2))

\* A variant whose Low delta is 0.05 instead of 0.005.
plus_support_impact_low_five_percent(merchant_metrics, scenario) ==
    LET conversion_increase == ("Low" :> Rat(5, 100)) @@ ("Medium" :> Rat(1, 100))
                               @@ ("High" :> Rat(15, 1000))
        new_conversion_rate == Mul(merchant_metrics.current_conversion_rate,
                                   Add(One, conversion_increase[scenario]))
        additional_orders == Mul(merchant_metrics.annual_transactions,
                                 conversion_increase[scenario])
        revenue_impact == Mul(additional_orders, merchant_metrics.aov)
        margin_impact == Mul(revenue_impact, Div100(merchant_metrics.profit_margin))
    IN  ("Conversion Rate Increase" :>
            FormatFixed(Mul(conversion_increase[scenario], Hundred), 1))
        @@ ("New Conversion Rate" :> FormatFixed(new_conversion_rate, 2))
        @@ ("Additional Orders" :> FormatFixed(additional_orders, 0))
        @@ ("Revenue Impact" :> FormatFixed(revenue_impact, 2))
        @@ ("Margin Impact" :> FormatFixed(margin_impact, 2))

calculate_plus_support_impact(merchant_metrics, scenario) ==
    LET conversion_increase == ("Low" :> Rat(5, 1000)) @@ ("Medium" :> Rat(1, 100))
                               @@ ("High" :> Rat(15, 1000))
        new_conversion_rate == Mul(merchant_metrics.current_conversion_rate,
                                   Add(One, conversion_increase[scenario]))
        additional_orders == Mul(merchant_metrics.annual_transactions,
                                 conversion_increase[scenario])
        revenue_impact == Mul(additional_orders, merchant_metrics.aov)
        margin_impact == Mul(revenue_impact, Div100(merchant_metrics.profit_margin))
    IN  ("Conversion Rate Increase" :>
            FormatFixed(Mul(conversion_increase[scenario], Hundred), 1))
        @@ ("New Conversion Rate" :> FormatFixed(new_conversion_rate, 2))
        @@ ("Additional Orders" :> FormatFixed(additional_orders, 0))
        @@ ("Revenue Impact" :> FormatFixed(revenue_impact, 2))
        @@ ("Margin Impact" :> FormatFixed(margin_impact, 2))

\* A variant that takes the revenue impact as the uplift on annual_gmv
\* instead of additional orders times AOV.
audiences_impact_on_annual_gmv(merchant_metrics, scenario) ==
    LET conversion_increase == ("Low" :> Rat(2, 100)) @@ ("Medium" :> Rat(4, 100))
                               @@ ("High" :> Rat(6, 100))
        new_conversion_rate == Mul(merchant_metrics.current_conversion_rate,
                                   Add(One, conversion_increase[scenario]))
        additional_orders == Mul(merchant_metrics.annual_transactions,
                                 conversion_increase[scenario])
        revenue_impact == Mul(merchant_metrics.annual_gmv, conversion_increase[scenario])
        margin_impact == Mul(revenue_impact, Div100(merchant_metrics.profit_margin))
    IN  ("Conversion Rate Increase" :>
            FormatFixed(Mul(conversion_increase[scenario], Hundred), 1))
        @@ ("New Conversion Rate" :> FormatFixed(new_conversion_rate, 2))
        @@ ("Additional Orders" :> FormatFixed(additional_orders, 0))
        @@ ("Revenue Impact" :> FormatFixed(revenue_impact, 2))
        @@ ("Margin Impact" :> FormatFixed(margin_impact, 2))

calculate_audiences_impact(merchant_metrics, scenario) ==
    LET conversion_increase == ("Low" :> Rat(2, 100)) @@ ("Medium" :> Rat(4, 100))
                               @@ ("High" :> Rat(6, 100))
        new_conversion_rate == Mul(merchant_metrics.current_conversion_rate,
                                   Add(One, conversion_increase[scenario]))
        additional_orders == Mul(merchant_metrics.annual_transactions,
                                 conversion_increase[scenario])
        revenue_impact == Mul(additional_orders, merchant_metrics.aov)
        margin_impact == Mul(revenue_impact, Div100(merchant_metrics.profit_margin))
    IN  ("Conversion Rate Increase" :>
            FormatFixed(Mul(conversion_increase[scenario], Hundred), 1))
        @@ ("New Conversion Rate" :> FormatFixed(new_conversion_rate, 2))
        @@ ("Additional Orders" :> FormatFixed(additional_orders, 0))
        @@ ("Revenue Impact" :> FormatFixed(revenue_impact, 2))
        @@ ("Margin Impact" :> FormatFixed(margin_impact, 2))

calculate_shop_pay_conversion_impact(merchant_metrics, scenario) ==
    LET conversion_increase == ("Low" :> Rat(3, 100)) @@ ("Medium" :> Rat(5, 100))
                               @@ ("High" :> Rat(7, 100))
        new_conversion_rate == Mul(merchant_metrics.current_conversion_rate,
                                   Add(One, conversion_increase[scenario]))
        additional_orders == Mul(merchant_metrics.annual_transactions,
                                 conversion_increase[scenario])
        revenue_impact == Mul(additional_orders, merchant_metrics.aov)
        margin_impact == Mul(revenue_impact, Div100(merchant_metrics.profit_margin))
    IN  ("Conversion Rate Increase" :>
            FormatFixed(Mul(conversion_increase[scenario], Hundred), 1))
        @@ ("New Conversion Rate" :> FormatFixed(new_conversion_rate, 2))
        @@ ("Additional Orders" :> FormatFixed(additional_orders, 0))
        @@ ("Revenue Impact" :> FormatFixed(revenue_impact, 2))
        @@ ("Margin Impact" :> FormatFixed(margin_impact, 2))

\* A variant that also returns the AOV delta.
shop_pay_aov_impact_with_aov_delta(merchant_metrics, scenario) ==
    LET aov_increase == ("Low" :> Rat(5, 100)) @@ ("Medium" :> Rat(10, 100))
                        @@ ("High" :> Rat(20, 100))
        new_aov == Mul(merchant_metrics.aov, Add(One, aov_increase[scenario]))
        revenue_impact == Mul(merchant_metrics.annual_transactions,
                              Sub(new_aov, merchant_metrics.aov))
        margin_impact == Mul(revenue_impact, Div100(merchant_metrics.profit_margin))
    IN  ("AOV Increase" :> FormatFixed(Mul(aov_increase[scenario], Hundred), 1))
        @@ ("New AOV" :> FormatFixed(new_aov, 2))
        @@ ("AOV Delta" :> FormatFixed(Sub(new_aov, merchant_metrics.aov), 2))
        @@ ("Revenue Impact" :> FormatFixed(revenue_impact, 2))
        @@ ("Margin Impact" :> FormatFixed(margin_impact, 2))

calculate_shop_pay_aov_impact(merchant_metrics, scenario) ==
    LET aov_increase == ("Low" :> Rat(5, 100)) @@ ("Medium" :> Rat(10, 100))
                        @@ ("High" :> Rat(20, 100))
        new_aov == Mul(merchant_metrics.aov, Add(One, aov_increase[scenario]))
        revenue_impact == Mul(merchant_metrics.annual_transactions,
                              Sub(new_aov, merchant_metrics.aov))
        margin_impact == Mul(revenue_impact, Div100(merchant_metrics.profit_margin))
    IN  ("AOV Increase" :> FormatFixed(Mul(aov_increase[scenario], Hundred), 1))
        @@ ("New AOV" :> FormatFixed(new_aov, 2))
        @@ ("Revenue Impact" :> FormatFixed(revenue_impact, 2))
        @@ ("Margin Impact" :> FormatFixed(margin_impact, 2))

calculate_non_shop_pay_conversion_impact(merchant_metrics, scenario) ==
    LET conversion_increase == ("Low" :> Rat(1, 100)) @@ ("Medium" :> Rat(2, 100))
                               @@ ("High" :> Rat(3, 100))
        new_conversion_rate == Mul(merchant_metrics.current_conversion_rate,
                                   Add(One, conversion_increase[scenario]))
        additional_orders == Mul(merchant_metrics.annual_transactions,
                                 conversion_increase[scenario])
        revenue_impact == Mul(additional_orders, merchant_metrics.aov)
        margin_impact == Mul(revenue_impact, Div100(merchant_metrics.profit_margin))
    IN  ("Conversion Rate Increase" :>
            FormatFixed(Mul(conversion_increase[scenario], Hundred), 1))
        @@ ("New Conversion Rate" :> FormatFixed(new_conversion_rate, 2))
        @@ ("Additional Orders" :> FormatFixed(additional_orders, 0))
        @@ ("Revenue Impact" :> FormatFixed(revenue_impact, 2))
        @@ ("Margin Impact" :> FormatFixed(margin_impact, 2))

\* The methods in the order create_growth_summary_table and main call them.
Features ==
    << "Checkout Customization with API", "Checkout Upsell with 3P apps",
       "Plus Support Help", "Increased Retargeting with Audiences",
       "Increased Conversion with Shop Pay", "Increased AOV with Shop Pay",
       "Increased Conversion without Shop Pay" >>

\* The method main and create_growth_summary_table pair with row i.
Impact(i, merchant_metrics, scenario) ==
    CASE i = 1 -> calculate_checkout_customization_impact(merchant_metrics, scenario)
      [] i = 2 -> calculate_checkout_upsell_impact(merchant_metrics, scenario)
      [] i = 3 -> calculate_plus_support_impact(merchant_metrics, scenario)
      [] i = 4 -> calculate_audiences_impact(merchant_metrics, scenario)
      [] i = 5 -> calculate_shop_pay_conversion_impact(merchant_metrics, scenario)
      [] i = 6 -> calculate_shop_pay_aov_impact(merchant_metrics, scenario)
      [] i = 7 -> calculate_non_shop_pay_conversion_impact(merchant_metrics, scenario)

\* One cell of the summary table: the method's 'Margin Impact' string with
\* "$" and "," removed, parsed by float() and printed again with two decimals.
SummaryCell(bundle) == FormatFixed(ParseFloat(bundle["Margin Impact"]), 2)

\* A variant that fills the two Shop Pay rows from each other's method.
growth_summary_table_rows_swapped(calc) ==
    LET m == calc.merchant_metrics
        column(scenario) ==
            << SummaryCell(calculate_checkout_customization_impact(m, scenario)),
               SummaryCell(calculate_checkout_upsell_impact(m, scenario)),
               SummaryCell(calculate_plus_support_impact(m, scenario)),
               SummaryCell(calculate_audiences_impact(m, scenario)),
               SummaryCell(calculate_shop_pay_aov_impact(m, scenario)),
               SummaryCell(calculate_shop_pay_conversion_impact(m, scenario)),
               SummaryCell(calculate_non_shop_pay_conversion_impact(m, scenario)) >>
    IN  ("Feature" :> Features)
        @@ ("Low Growth" :> column("Low"))
        @@ ("Medium Growth" :> column("Medium"))
        @@ ("High Growth" :> column("High"))

create_growth_summary_table(calc) ==
    LET m == calc.merchant_metrics
        column(scenario) ==
            << SummaryCell(calculate_checkout_customization_impact(m, scenario)),
               SummaryCell(calculate_checkout_upsell_impact(m, scenario)),
               SummaryCell(calculate_plus_support_impact(m, scenario)),
               SummaryCell(calculate_audiences_impact(m, scenario)),
               SummaryCell(calculate_shop_pay_conversion_impact(m, scenario)),
               SummaryCell(calculate_shop_pay_aov_impact(m, scenario)),
               SummaryCell(calculate_non_shop_pay_conversion_impact(m, scenario)) >>
    IN  ("Feature" :> Features)
        @@ ("Low Growth" :> column("Low"))
        @@ ("Medium Growth" :> column("Medium"))
        @@ ("High Growth" :> column("High"))

\* ROICalculator.__init__
ROICalculator(merchant_metrics, upgrade_metrics) ==
    [merchant_metrics |-> merchant_metrics, upgrade_metrics |-> upgrade_metrics]

\* A variant in which a call leaves its new AOV (5% above the old one) in
\* the merchant metrics.
ROICalculator_keeps_new_aov(calc) ==
    [calc EXCEPT !.merchant_metrics.aov = Mul(@, Rat(105, 100))]

\* The calculator object (self) after a call of an impact method or of
\* create_growth_summary_table: the methods read self.merchant_metrics and
\* assign to no attribute of self or of its two records.
ROICalculator_after_calls(calc) == calc

\* main(): one Streamlit run on the current widget values: the calculator,
\* the summary table and the seven feature tables (each at MEDIUM).
Roi_main(merchant_metrics, upgrade_metrics) ==
    LET calc == ROICalculator(merchant_metrics, upgrade_metrics)
    IN  [calculator |-> ROICalculator_after_calls(calc),
         growth_summary_df |-> create_growth_summary_table(calc),
         feature_tables |->
            [i \in 1..7 |-> Impact(i, calc.merchant_metrics, "Medium")]]

-----------------------------------------------------------------------------
(* The widget values of roi_calculator.main.                               *)

\* MerchantMetrics(...) as main builds it from the widgets' default values.
DefaultMerchantMetrics ==
    [annual_gmv |-> Num(1000000), aov |-> Num(70),
     annual_transactions |-> Num(35000), profit_margin |-> Num(15),
     ad_spend |-> Num(50000), retargeting_budget_allocation |-> Num(15),
     retargeting_cpa |-> Num(75), prospecting_cpa |-> Num(100),
     ltv |-> Num(200), payments_profile_online |-> Num(100),
     orders_on_payments |-> Num(100), current_conversion_rate |-> Num(3),
     shop_pay_usage |-> Num(40)]

\* UpgradeMetrics(...) as main builds it from the widgets' default values.
DefaultUpgradeMetrics ==
    [checkout_customization_cost |->
        ("Low" :> Num(125)) @@ ("Medium" :> Rat(37875, 100)) @@ ("High" :> Rat(65019, 100)),
     checkout_upsell_cost |->
        ("Low" :> Rat(153125, 100)) @@ ("Medium" :> Rat(306250, 100)) @@ ("High" :> Num(6125)),
     plus_support_cost |->
        ("Low" :> Rat(1613, 100)) @@ ("Medium" :> Rat(7095, 100)) @@ ("High" :> Rat(40850, 100)),
     audiences_cost |->
        ("Low" :> Num(68)) @@ ("Medium" :> Num(898)) @@ ("High" :> Num(2746))]

\* The values enumerated for the widget of each merchant metric the model
\* varies: zero, the first steps above it, and the widget's default.  The
\* other metrics stay at their defaults.
MetricInputs(field) ==
    CASE field = "aov" ->
            {Num(k) : k \in 0..MaxMetricSteps} \cup {Num(70)}
      [] field = "annual_transactions" ->
            {Num(k * 1000) : k \in 0..MaxMetricSteps} \cup {Num(35000)}
      [] field = "profit_margin" ->
            {Rat(k, 10) : k \in 0..MaxMetricSteps} \cup {Num(15)}
      [] field = "current_conversion_rate" ->
            {Rat(k, 10) : k \in 0..MaxMetricSteps} \cup {Num(3)}
      [] field = "annual_gmv" ->
            {Num(0), Num(1000000)}

MetricFields ==
    {"aov", "annual_transactions", "profit_margin", "current_conversion_rate",
     "annual_gmv"}

\* The values a direct caller passes for a field of MerchantMetrics: the
\* widget values and, since the dataclass takes any number, one value
\* outside the widget's range (a negative amount, a negative count, a
\* percentage above 100, a negative percentage).
CallerInputs(field) ==
    MetricInputs(field) \cup
    CASE field = "aov" -> {Num(-70)}
      [] field = "annual_transactions" -> {Num(-1000)}
      [] field = "profit_margin" -> {Num(150)}
      [] field = "current_conversion_rate" -> {Num(-3)}
      [] OTHER -> {}

\* The values enumerated for the "Checkout Customization Cost - Low" widget.
CostInputs == {Num(0), Num(125)}

-----------------------------------------------------------------------------
(* The state before main has run: nothing is rendered, nothing is stored   *)
(* in the session, the locals hold placeholders and the widgets of         *)
(* roi_calculator hold their defaults.                                     *)

NoResult == [feature |-> 0, scenario |-> "none", bundle |-> << >>]

Init ==
    /\ app \in {"roas_calculator", "simple_calculator", "web_calculator",
                "roi_calculator", "ROICalculator"}
    /\ status = "idle"
    /\ campaign = NoCampaign
    /\ traditional_roas = Zero
    /\ adjusted_roas = Zero
    /\ display = << >>
    /\ session_state = << >>
    /\ submitted = FALSE
    /\ calculator = ROICalculator(DefaultMerchantMetrics, DefaultUpgradeMetrics)
    /\ result = NoResult
    /\ growth_summary_df = << >>
    /\ feature_tables = << >>
    /\ last_inputs = NoCampaign
    /\ built_calculator = ROICalculator(DefaultMerchantMetrics, DefaultUpgradeMetrics)

-----------------------------------------------------------------------------
(* Actions.                                                                *)

\* The locals and the output of one run of a ROAS program.  (The run is
\* bound by \E so that it is computed once.)
SetRun(r) ==
    \E run \in {r} :
        /\ status' = run.status
        /\ campaign' = run.campaign
        /\ traditional_roas' = run.traditional_roas
        /\ adjusted_roas' = run.adjusted_roas
        /\ display' = run.display

\* simple_calculator: the process runs main once on four typed numbers and exits.
SimpleRun ==
    /\ app = "simple_calculator"
    /\ status = "idle"
    /\ \E revenue \in ConsoleAmounts, ad_spend \in ConsoleAmounts,
          new_buyer_share \in ConsolePercents, discount_percentage \in ConsolePercents :
            /\ SetRun(Simple_main(revenue, ad_spend, new_buyer_share, discount_percentage))
            /\ last_inputs' = Campaign(revenue, ad_spend, new_buyer_share,
                                       discount_percentage)
    /\ UNCHANGED <<app, session_state, submitted, roiVars>>

\* roas_calculator: the first run of the script, on the widgets' defaults.
RoasFirstRun ==
    /\ app = "roas_calculator"
    /\ status = "idle"
    /\ SetRun(Roas_main(Num(1000), Num(100), Num(10), Num(20)))
    /\ last_inputs' = Campaign(Num(1000), Num(100), Num(10), Num(20))
    /\ UNCHANGED <<app, session_state, submitted, roiVars>>

\* The values of each widget of roas_calculator.main.
Roas_inputs(field) ==
    CASE field = "revenue" -> AmountInputs(1000, 100)
      [] field = "ad_spend" -> AmountInputs(100, 10)
      [] field = "new_buyer_share" -> PercentInputs(10)
      [] field = "discount_percentage" -> PercentInputs(20)

\* roas_calculator: the user moves one widget and Streamlit runs the script again.
RoasRerun ==
    /\ app = "roas_calculator"
    /\ status # "idle"
    /\ \E field \in DOMAIN campaign : \E v \in Roas_inputs(field) :
          LET w == [campaign EXCEPT ![field] = v]
          IN  /\ SetRun(Roas_main(w.revenue, w.ad_spend, w.new_buyer_share,
                                  w.discount_percentage))
              /\ last_inputs' = Campaign(w.revenue, w.ad_spend, w.new_buyer_share,
                                         w.discount_percentage)
    /\ UNCHANGED <<app, session_state, submitted, roiVars>>

\* One run of web_calculator.main with submit flag `sub` and the form's values.
WebRun(sub, revenue, ad_spend, new_buyer_share, discount_percentage) ==
    \E m \in {Web_main(session_state, sub, revenue, ad_spend, new_buyer_share,
                       discount_percentage)} :
        /\ SetRun(m.run)
        /\ session_state' = m.session_state
        /\ submitted' = sub
        /\ last_inputs' = IF sub \/ status = "idle"
                          THEN Campaign(revenue, ad_spend, new_buyer_share,
                                        discount_percentage)
                          ELSE last_inputs
        /\ UNCHANGED <<app, roiVars>>

\* web_calculator: the first run of a session, on the form's defaults.
WebFirstRun ==
    /\ app = "web_calculator"
    /\ status = "idle"
    /\ WebRun(FALSE, Num(1000), Num(500), Num(20), Num(20))

\* web_calculator: the user submits the form.
WebSubmit ==
    /\ app = "web_calculator"
    /\ status # "idle"
    /\ \E revenue \in AmountInputs(1000, 100), ad_spend \in AmountInputs(500, 50),
          new_buyer_share \in PercentInputs(20), discount_percentage \in PercentInputs(20) :
            WebRun(TRUE, revenue, ad_spend, new_buyer_share, discount_percentage)

\* web_calculator: Streamlit runs the script again without a submission;
\* each of the form's values in that run is zero or the widget's default.
WebRedraw ==
    /\ app = "web_calculator"
    /\ status # "idle"
    /\ \E revenue \in {Zero, Num(1000)}, ad_spend \in {Zero, Num(500)},
          new_buyer_share \in {Zero, Num(20)}, discount_percentage \in {Zero, Num(20)} :
            WebRun(FALSE, revenue, ad_spend, new_buyer_share, discount_percentage)

\* One run of roi_calculator.main on the widget values.
RoiRun(merchant_metrics, upgrade_metrics) ==
    \E m \in {Roi_main(merchant_metrics, upgrade_metrics)} :
        /\ status' = "ok"
        /\ calculator' = m.calculator
        /\ growth_summary_df' = m.growth_summary_df
        /\ feature_tables' = m.feature_tables
        /\ result' = NoResult
        /\ built_calculator' = ROICalculator(merchant_metrics, upgrade_metrics)
        /\ UNCHANGED <<app, roasVars>>

\* roi_calculator: the first run of the script, on the widgets' defaults.
RoiFirstRun ==
    /\ app = "roi_calculator"
    /\ status = "idle"
    /\ RoiRun(DefaultMerchantMetrics, DefaultUpgradeMetrics)

\* roi_calculator: the user changes one merchant metric and the script runs again.
RoiMetricRerun ==
    /\ app = "roi_calculator"
    /\ status # "idle"
    /\ \E field \in MetricFields : \E v \in MetricInputs(field) :
          RoiRun([calculator.merchant_metrics EXCEPT ![field] = v],
                 calculator.upgrade_metrics)

\* roi_calculator: the user changes an upgrade cost and the script runs again.
RoiCostRerun ==
    /\ app = "roi_calculator"
    /\ status # "idle"
    /\ \E v \in CostInputs :
          RoiRun(calculator.merchant_metrics,
                 [calculator.upgrade_metrics EXCEPT
                    !.checkout_customization_cost["Low"] = v])

\* ROICalculator(merchant_metrics, upgrade_metrics), called directly with
\* any of the enumerated caller values.
NewCalculator ==
    /\ app = "ROICalculator"
    /\ status = "idle"
    /\ \E aov \in CallerInputs("aov"),
          annual_transactions \in CallerInputs("annual_transactions"),
          profit_margin \in CallerInputs("profit_margin"),
          current_conversion_rate \in CallerInputs("current_conversion_rate"),
          annual_gmv \in CallerInputs("annual_gmv"),
          cost \in CostInputs :
            \E calc \in {ROICalculator(
                [DefaultMerchantMetrics EXCEPT
                    !.aov = aov, !.annual_transactions = annual_transactions,
                    !.profit_margin = profit_margin,
                    !.current_conversion_rate = current_conversion_rate,
                    !.annual_gmv = annual_gmv],
                [DefaultUpgradeMetrics EXCEPT
                    !.checkout_customization_cost["Low"] = cost])} :
                /\ calculator' = calc
                /\ built_calculator' = calc
    /\ status' = "ok"
    /\ UNCHANGED <<app, roasVars, result, growth_summary_df, feature_tables>>

\* A call of the i-th impact method on the calculator: the bundle it returns
\* and the calculator as the call leaves it.
CallImpact(i) ==
    /\ app = "ROICalculator"
    /\ status # "idle"
    /\ \E scenario \in GrowthScenario :
          result' = [feature |-> i, scenario |-> scenario,
                     bundle |-> Impact(i, calculator.merchant_metrics, scenario)]
    /\ calculator' = ROICalculator_after_calls(calculator)
    /\ UNCHANGED <<app, status, roasVars, built_calculator, growth_summary_df,
                   feature_tables>>

CallCheckoutCustomization == CallImpact(1)
CallCheckoutUpsell == CallImpact(2)
CallPlusSupport == CallImpact(3)
CallAudiences == CallImpact(4)
CallShopPayConversion == CallImpact(5)
CallShopPayAov == CallImpact(6)
CallNonShopPayConversion == CallImpact(7)

Next ==
    \/ SimpleRun
    \/ RoasFirstRun
    \/ RoasRerun
    \/ WebFirstRun
    \/ WebSubmit
    \/ WebRedraw
    \/ RoiFirstRun
    \/ RoiMetricRerun
    \/ RoiCostRerun
    \/ NewCalculator
    \/ CallCheckoutCustomization
    \/ CallCheckoutUpsell
    \/ CallPlusSupport
    \/ CallAudiences
    \/ CallShopPayConversion
    \/ CallShopPayAov
    \/ CallNonShopPayConversion

Spec == Init /\ [][Next]_vars

-----------------------------------------------------------------------------
(* Properties.                                                             *)

\* ad_spend * (new_buyer_share / 100) * (discount_percentage / 100), written
\* out on numerators and denominators.
DiscountFormula(c) ==
    Rat(c.ad_spend.n * c.new_buyer_share.n * c.discount_percentage.n,
        c.ad_spend.d * c.new_buyer_share.d * c.discount_percentage.d * 10000)

\* ad_spend * (new_buyer_share / 100), written out likewise.
NewBuyerFormula(c) ==
    Rat(c.ad_spend.n * c.new_buyer_share.n, c.ad_spend.d * c.new_buyer_share.d * 100)

\* q = x / y for y # 0, stated without division: q * y = x.
IsQuotient(q, x, y) == Mul(q, y) = x

Ran == status # "idle"

\* x < y and x <= y on rationals.
Lt(x, y) == x.n * y.d < y.n * x.d
Le(x, y) == x.n * y.d <= y.n * x.d

\* C1: in roas_calculator and simple_calculator, calculate_traditional_roas
\* returns revenue / ad_spend when ad_spend # 0 and the sentinel 0.0 when
\* ad_spend = 0, whatever the other three fields are, and the run never raises.
C1_TraditionalRoas ==
    (app \in {"roas_calculator", "simple_calculator"} /\ Ran) =>
        /\ status = "ok"
        /\ IF campaign.ad_spend.n = 0
           THEN traditional_roas = Zero
           ELSE IsQuotient(traditional_roas, campaign.revenue, campaign.ad_spend)

\* C1 witness: the console program ran with ad_spend = 0 and a non-zero
\* revenue, share and discount, and returned the sentinel.
C1_Witness ==
    /\ app = "simple_calculator"
    /\ status = "ok"
    /\ campaign.ad_spend = Zero
    /\ campaign.revenue = Num(1000)
    /\ campaign.new_buyer_share = Num(10)
    /\ campaign.discount_percentage = Num(20)
    /\ traditional_roas = Zero

\* C2: in roas_calculator and simple_calculator, calculate_adjusted_roas
\* returns revenue / (ad_spend + discount_amount) when that denominator is
\* non-zero and 0.0 when it is zero, and never raises; for revenue=1000,
\* ad_spend=100, new_buyer_share=10, discount_percentage=20 the total cost is
\* 102.00, the adjusted ROAS prints as 9.80 and the traditional one as 10.00.
C2_AdjustedRoas ==
    (app \in {"roas_calculator", "simple_calculator"} /\ Ran) =>
        LET den == Add(campaign.ad_spend, DiscountFormula(campaign))
        IN  /\ status = "ok"
            /\ IF den.n = 0
               THEN adjusted_roas = Zero
               ELSE IsQuotient(adjusted_roas, campaign.revenue, den)
            /\ campaign = Campaign(Num(1000), Num(100), Num(10), Num(20)) =>
                  /\ den = Num(102)
                  /\ display["Total Cost"] = 10200
                  /\ display["Adjusted ROAS"] = 980
                  /\ display["Traditional ROAS"] = 1000

\* C2 witness: roas_calculator ran on the example and printed 9.80x.
C2_Witness ==
    /\ app = "roas_calculator"
    /\ status = "ok"
    /\ campaign = Campaign(Num(1000), Num(100), Num(10), Num(20))
    /\ display["Adjusted ROAS"] = 980

\* The discount amount and the two ROAS values of the last run, as the
\* copy of the model the running script holds computed them.
DiscountOfRun ==
    CASE app = "roas_calculator" -> Roas_discount_amount(campaign)
      [] app = "simple_calculator" -> Simple_discount_amount(campaign)
      [] OTHER -> Web_discount_amount(campaign)

RanRoas == app \in {"roas_calculator", "simple_calculator", "web_calculator"} /\ Ran

\* C3 as stated: for every campaign with discount_amount > 0 and revenue > 0,
\* calculate_adjusted_roas(campaign) <= calculate_traditional_roas(campaign).
C3_Original ==
    (RanRoas /\ DiscountOfRun.n > 0 /\ campaign.revenue.n > 0) =>
        Le(adjusted_roas, traditional_roas)

\* C3 as amended: for every campaign with ad_spend > 0, discount_amount > 0
\* and revenue > 0, the adjusted ROAS is at most the traditional ROAS.
C3_AdjustedBelowTraditional ==
    (RanRoas /\ campaign.ad_spend.n > 0 /\ DiscountOfRun.n > 0 /\ campaign.revenue.n > 0) =>
        Le(adjusted_roas, traditional_roas)

\* C3 witness: a run of the web calculator with positive ad spend, discount
\* and revenue, whose adjusted ROAS is below its traditional ROAS.
C3_Witness ==
    /\ app = "web_calculator"
    /\ status = "ok"
    /\ campaign.ad_spend.n > 0
    /\ campaign.revenue.n > 0
    /\ Web_discount_amount(campaign).n > 0
    /\ Lt(adjusted_roas, traditional_roas)

NonNegative(c) ==
    /\ c.revenue.n >= 0
    /\ c.ad_spend.n >= 0
    /\ c.new_buyer_share.n >= 0
    /\ c.discount_percentage.n >= 0

\* C4: for every campaign with non-negative fields, discount_amount is
\* ad_spend * (new_buyer_share/100) * (discount_percentage/100) in each copy,
\* and in the web calculator new_buyer_ad_spend is
\* ad_spend * (new_buyer_share/100), so that
\* discount_amount = new_buyer_ad_spend * (discount_percentage/100); the
\* printed amounts are these values to two decimals.
C4_DerivedQuantities ==
    (RanRoas /\ NonNegative(campaign)) =>
        /\ DiscountOfRun = DiscountFormula(campaign)
        /\ app = "web_calculator" =>
              /\ Web_new_buyer_ad_spend(campaign) = NewBuyerFormula(campaign)
              /\ Web_discount_amount(campaign) =
                    Mul(Web_new_buyer_ad_spend(campaign),
                        Rat(campaign.discount_percentage.n,
                            campaign.discount_percentage.d * 100))
              /\ display["New Buyer Ad Spend"] = FormatFixed(NewBuyerFormula(campaign), 2)
              /\ display["New Buyer Discount"] = FormatFixed(DiscountFormula(campaign), 2)

\* C4 witness: the web calculator ran on revenue=1000, ad_spend=500,
\* share=20, discount=20 and shows a new-buyer spend of 100.00 and a
\* discount of 20.00.
C4_Witness ==
    /\ app = "web_calculator"
    /\ status = "ok"
    /\ campaign = Campaign(Num(1000), Num(500), Num(20), Num(20))
    /\ display["New Buyer Ad Spend"] = 10000
    /\ display["New Buyer Discount"] = 2000

\* The table of the specification: the delta of feature i (in the order of
\* Features) for Low, Medium and High, in tenths of a percent.
SpecDelta ==
    << [Low |-> 10, Medium |-> 30, High |-> 50],
       [Low |-> 50, Medium |-> 100, High |-> 200],
       [Low |-> 5, Medium |-> 10, High |-> 15],
       [Low |-> 20, Medium |-> 40, High |-> 60],
       [Low |-> 30, Medium |-> 50, High |-> 70],
       [Low |-> 50, Medium |-> 100, High |-> 200],
       [Low |-> 10, Medium |-> 20, High |-> 30] >>

ConversionVariant == {1, 3, 4, 5, 7}
AovVariant == {2, 6}

Called == result.feature # 0

\* The delta of the last call as a fraction, from the specification's table.
DeltaOfCall == Rat(SpecDelta[result.feature][result.scenario], 1000)

\* annual_transactions * delta * aov of the calculator, for the last call.
RevenueFormula ==
    Mul(Mul(calculator.merchant_metrics.annual_transactions, DeltaOfCall),
        calculator.merchant_metrics.aov)

\* C5: each of the seven impact methods applies, for each scenario, the delta
\* of the specification's table: it prints that percentage, as
\* 'Conversion Rate Increase' for the five conversion methods and as
\* 'AOV Increase' for checkout upsell and Shop Pay AOV, and its revenue impact
\* is annual_transactions * aov * that delta.
C5_DeltaTable ==
    Called =>
        /\ result.feature \in ConversionVariant =>
              /\ "AOV Increase" \notin DOMAIN result.bundle
              /\ result.bundle["Conversion Rate Increase"] =
                    SpecDelta[result.feature][result.scenario]
        /\ result.feature \in AovVariant =>
              /\ "Conversion Rate Increase" \notin DOMAIN result.bundle
              /\ result.bundle["AOV Increase"] =
                    SpecDelta[result.feature][result.scenario]
        /\ result.bundle["Revenue Impact"] = FormatFixed(RevenueFormula, 2)

\* C5 witness: Plus Support was called at High on the default metrics and
\* printed 1.5%.
C5_Witness ==
    /\ Called
    /\ result.feature = 3
    /\ result.scenario = "High"
    /\ calculator.merchant_metrics = DefaultMerchantMetrics
    /\ result.bundle["Conversion Rate Increase"] = 15

\* C6: for each of the five conversion methods, every metrics record and
\* every scenario with delta D: new conversion rate =
\* current_conversion_rate * (1 + D), additional orders =
\* annual_transactions * D, revenue impact = additional orders * aov, margin
\* impact = revenue impact * profit_margin / 100 (each printed rounded); on
\* annual_transactions=35000, aov=70, profit_margin=15, Checkout
\* Customization at Medium gives 1,050 orders, 73,500.00 and 11,025.00.
C6_ConversionVariant ==
    (Called /\ result.feature \in ConversionVariant) =>
        LET m == calculator.merchant_metrics
            orders == Mul(m.annual_transactions, DeltaOfCall)
            revenue == Mul(orders, m.aov)
            margin == Mul(revenue, Rat(m.profit_margin.n, m.profit_margin.d * 100))
        IN  /\ result.bundle["New Conversion Rate"] =
                  FormatFixed(Add(m.current_conversion_rate,
                                  Mul(m.current_conversion_rate, DeltaOfCall)), 2)
            /\ result.bundle["Additional Orders"] = FormatFixed(orders, 0)
            /\ result.bundle["Revenue Impact"] = FormatFixed(revenue, 2)
            /\ result.bundle["Margin Impact"] = FormatFixed(margin, 2)
            /\ (/\ m.annual_transactions = Num(35000)
                /\ m.aov = Num(70)
                /\ m.profit_margin = Num(15)
                /\ result.feature = 1
                /\ result.scenario = "Medium") =>
                      /\ result.bundle["Additional Orders"] = 1050
                      /\ result.bundle["Revenue Impact"] = 7350000
                      /\ result.bundle["Margin Impact"] = 1102500

\* C6 witness: Checkout Customization was called at Medium on the example
\* metrics (conversion rate 3.0) and returned 1,050 orders and a new rate of
\* 3.09%.
C6_Witness ==
    /\ Called
    /\ result.feature = 1
    /\ result.scenario = "Medium"
    /\ calculator.merchant_metrics = DefaultMerchantMetrics
    /\ result.bundle["Additional Orders"] = 1050
    /\ result.bundle["New Conversion Rate"] = 309

\* C7: for checkout upsell and Shop Pay AOV, every metrics record and every
\* scenario with delta D: new AOV = aov * (1 + D), revenue impact =
\* annual_transactions * (new AOV - aov), margin impact = revenue impact *
\* profit_margin / 100 (each printed rounded); on aov=70,
\* annual_transactions=35000, profit_margin=15, Checkout Upsell at High gives
\* new AOV 84.00, revenue impact 490,000.00 and margin impact 73,500.00.
C7_AovVariant ==
    (Called /\ result.feature \in AovVariant) =>
        LET m == calculator.merchant_metrics
            new_aov == Add(m.aov, Mul(m.aov, DeltaOfCall))
            revenue == Mul(m.annual_transactions, Sub(new_aov, m.aov))
            margin == Mul(revenue, Rat(m.profit_margin.n, m.profit_margin.d * 100))
        IN  /\ result.bundle["New AOV"] = FormatFixed(new_aov, 2)
            /\ result.bundle["Revenue Impact"] = FormatFixed(revenue, 2)
            /\ result.bundle["Margin Impact"] = FormatFixed(margin, 2)
            /\ (/\ m.annual_transactions = Num(35000)
                /\ m.aov = Num(70)
                /\ m.profit_margin = Num(15)
                /\ result.feature = 2
                /\ result.scenario = "High") =>
                      /\ result.bundle["New AOV"] = 8400
                      /\ result.bundle["Revenue Impact"] = 49000000
                      /\ result.bundle["Margin Impact"] = 7350000

\* C7 witness: Checkout Upsell was called at High on the example metrics and
\* returned a new AOV of 84.00.
C7_Witness ==
    /\ Called
    /\ result.feature = 2
    /\ result.scenario = "High"
    /\ calculator.merchant_metrics = DefaultMerchantMetrics
    /\ result.bundle["New AOV"] = 8400

\* The 'Margin Impact' the method belonging to the feature called `name`
\* returns.
MarginOf(name, m, scenario) ==
    CASE name = "Checkout Customization with API" ->
            calculate_checkout_customization_impact(m, scenario)["Margin Impact"]
      [] name = "Checkout Upsell with 3P apps" ->
            calculate_checkout_upsell_impact(m, scenario)["Margin Impact"]
      [] name = "Plus Support Help" ->
            calculate_plus_support_impact(m, scenario)["Margin Impact"]
      [] name = "Increased Retargeting with Audiences" ->
            calculate_audiences_impact(m, scenario)["Margin Impact"]
      [] name = "Increased Conversion with Shop Pay" ->
            calculate_shop_pay_conversion_impact(m, scenario)["Margin Impact"]
      [] name = "Increased AOV with Shop Pay" ->
            calculate_shop_pay_aov_impact(m, scenario)["Margin Impact"]
      [] name = "Increased Conversion without Shop Pay" ->
            calculate_non_shop_pay_conversion_impact(m, scenario)["Margin Impact"]

ColumnOf == [Low |-> "Low Growth", Medium |-> "Medium Growth", High |-> "High Growth"]

\* C8: the table main gets from create_growth_summary_table has the seven
\* features as rows, in the order customization, upsell, plus support,
\* audiences, Shop Pay conversion, Shop Pay AOV, non-Shop-Pay conversion, and
\* the three scenario columns; the cell of feature f and scenario s is the
\* 'Margin Impact' f's own method returns for s on the calculator's current
\* metrics, unchanged by the parse and reformat.
C8_SummaryTable ==
    (app = "roi_calculator" /\ Ran) =>
        /\ DOMAIN growth_summary_df =
              {"Feature", "Low Growth", "Medium Growth", "High Growth"}
        /\ growth_summary_df["Feature"] =
              << "Checkout Customization with API", "Checkout Upsell with 3P apps",
                 "Plus Support Help", "Increased Retargeting with Audiences",
                 "Increased Conversion with Shop Pay", "Increased AOV with Shop Pay",
                 "Increased Conversion without Shop Pay" >>
        /\ \A scenario \in GrowthScenario :
              /\ Len(growth_summary_df[ColumnOf[scenario]]) = 7
              /\ \A i \in 1..7 :
                    growth_summary_df[ColumnOf[scenario]][i] =
                        MarginOf(growth_summary_df["Feature"][i],
                                 calculator.merchant_metrics, scenario)

\* C8 witness: main ran on the default metrics; the table shows 11,025.00
\* for customization at Medium, 73,500.00 for upsell at High and 18,375.00
\* for Shop Pay conversion at Medium.
C8_Witness ==
    /\ app = "roi_calculator"
    /\ status = "ok"
    /\ calculator.merchant_metrics = DefaultMerchantMetrics
    /\ growth_summary_df["Medium Growth"][1] = 1102500
    /\ growth_summary_df["High Growth"][2] = 7350000
    /\ growth_summary_df["Medium Growth"][5] = 1837500

\* C9 as stated: for every input within the widget bounds, a run of the
\* form-based web calculator (campaign, both ROAS values, chart, four
\* metrics including the 'vs Traditional' percentage) completes without
\* raising.
C9_WebRunNeverRaises ==
    (app = "web_calculator" /\ Ran) => status = "ok"

\* C10 as stated: every one of the seven impact methods returns a bundle of
\* five items.
C10_Original ==
    Called => Cardinality(DOMAIN result.bundle) = 5

\* C10 as amended: each of the five conversion methods returns five items
\* (the delta, the new conversion rate, the additional orders, the revenue
\* impact, the margin impact); checkout upsell and Shop Pay AOV return four
\* (the delta, the new AOV, the revenue impact, the margin impact) and no
\* AOV-delta item.
C10_BundleItems ==
    Called =>
        /\ result.feature \in ConversionVariant =>
              DOMAIN result.bundle =
                  {"Conversion Rate Increase", "New Conversion Rate",
                   "Additional Orders", "Revenue Impact", "Margin Impact"}
        /\ result.feature \in AovVariant =>
              DOMAIN result.bundle =
                  {"AOV Increase", "New AOV", "Revenue Impact", "Margin Impact"}

\* C10 witness: Shop Pay AOV was called and returned four items.
C10_Witness ==
    /\ Called
    /\ result.feature = 6
    /\ Cardinality(DOMAIN result.bundle) = 4

-----------------------------------------------------------------------------
(* The input records between construction and use.                         *)

\* C11: input records are immutable once constructed: whatever operations
\* have run (the ROAS functions, the derived accessors, the chart builder,
\* rendering, the impact methods, the summary table), the Campaign main
\* works with and the one the session holds have the fields they were
\* constructed with, and the calculator holds the two records its
\* constructor was given, field for field.
C11_RecordsImmutable ==
    /\ RanRoas => campaign = last_inputs
    /\ (app = "web_calculator" /\ Ran) =>
          /\ "campaign" \in DOMAIN session_state
          /\ session_state["campaign"] = last_inputs
    /\ (app \in {"roi_calculator", "ROICalculator"}) =>
          calculator = built_calculator

\* C11 witness: a redraw of web_calculator has rendered, for the second time
\* at least, a submitted campaign with a discount.
C11_Witness ==
    /\ app = "web_calculator"
    /\ status = "ok"
    /\ ~submitted
    /\ campaign # Campaign(Num(1000), Num(500), Num(20), Num(20))
    /\ Web_discount_amount(campaign) # Zero
    /\ session_state["campaign"] = campaign

\* The labels under which a run shows the discount amount.
DiscountLabels == {"Discount Amount", "New Buyer Discount"}

\* The record a later access would read: the one the session holds in
\* web_calculator, main's local elsewhere.
CurrentRecord ==
    IF app = "web_calculator" THEN session_state["campaign"] ELSE campaign

\* C12: derived quantities never go stale: after every run, a redraw that
\* fetched the campaign from the session included, every discount amount
\* and new-buyer ad spend on display equals its formula evaluated on the
\* current stored fields of the record; the record has the four stored
\* fields and no other, and the session holds the campaign and no copy of
\* a derived value.
C12_DerivedNeverStale ==
    RanRoas =>
        /\ DOMAIN CurrentRecord =
              {"revenue", "ad_spend", "new_buyer_share", "discount_percentage"}
        /\ campaign = CurrentRecord
        /\ DiscountOfRun = DiscountFormula(CurrentRecord)
        /\ \A label \in DiscountLabels \cap DOMAIN display :
              display[label] = FormatFixed(DiscountFormula(CurrentRecord), 2)
        /\ "New Buyer Ad Spend" \in DOMAIN display =>
              display["New Buyer Ad Spend"] =
                  FormatFixed(NewBuyerFormula(CurrentRecord), 2)
        /\ app = "web_calculator" =>
              /\ DOMAIN session_state = {"campaign"}
              /\ Web_new_buyer_ad_spend(CurrentRecord) = NewBuyerFormula(CurrentRecord)

\* C12 witness: a redraw of web_calculator fetched from the session a
\* campaign whose discount is not the default 20.00 and shows that discount.
C12_Witness ==
    /\ app = "web_calculator"
    /\ status = "ok"
    /\ ~submitted
    /\ display["Discount Amount"] \notin {0, 2000}
    /\ display["Discount Amount"] =
          FormatFixed(DiscountFormula(session_state["campaign"]), 2)
    /\ display["New Buyer Ad Spend"] # 10000

-----------------------------------------------------------------------------
(* Inputs outside the widgets' ranges.                                     *)

\* The two ROAS functions of the program that ran, applied to its campaign.
TraditionalOfRun ==
    CASE app = "roas_calculator" -> Roas_calculate_traditional_roas(campaign)
      [] app = "simple_calculator" -> Simple_calculate_traditional_roas(campaign)
      [] OTHER -> Web_calculate_traditional_roas(campaign)

AdjustedOfRun ==
    CASE app = "roas_calculator" -> Roas_calculate_adjusted_roas(campaign)
      [] app = "simple_calculator" -> Simple_calculate_adjusted_roas(campaign)
      [] OTHER -> Web_calculate_adjusted_roas(campaign)

\* A campaign with a negative amount or a percentage outside [0, 100].
CampaignOutOfRange(c) ==
    \/ ~NonNegative(c)
    \/ Lt(Hundred, c.new_buyer_share)
    \/ Lt(Hundred, c.discount_percentage)

\* C13: the formula layer does not validate ranges: on every campaign, those
\* with negative amounts or percentages outside [0, 100] included, the two
\* ROAS functions return revenue over their denominator (0.0 when the
\* denominator is zero) and discount_amount returns its product, without
\* raising; on every set of merchant metrics, out of range or not, an impact
\* method returns the revenue and margin impact of its formula.
C13_NoRangeValidation ==
    /\ RanRoas =>
          LET den == Add(campaign.ad_spend, DiscountFormula(campaign))
          IN  /\ TraditionalOfRun.raised = "none"
              /\ AdjustedOfRun.raised = "none"
              /\ traditional_roas = TraditionalOfRun.value
              /\ adjusted_roas = AdjustedOfRun.value
              /\ IF campaign.ad_spend.n = 0
                 THEN traditional_roas = Zero
                 ELSE IsQuotient(traditional_roas, campaign.revenue, campaign.ad_spend)
              /\ IF den.n = 0
                 THEN adjusted_roas = Zero
                 ELSE IsQuotient(adjusted_roas, campaign.revenue, den)
              /\ DiscountOfRun = DiscountFormula(campaign)
              /\ app = "simple_calculator" =>
                    /\ status = "ok"
                    /\ display["Discount Amount"] =
                          FormatFixed(DiscountFormula(campaign), 2)
    /\ Called =>
          LET m == calculator.merchant_metrics
          IN  /\ result.bundle["Revenue Impact"] = FormatFixed(RevenueFormula, 2)
              /\ result.bundle["Margin Impact"] =
                    FormatFixed(Mul(RevenueFormula,
                                    Rat(m.profit_margin.n, m.profit_margin.d * 100)), 2)

\* C13 witness: the console program ran on a negative ad spend and a
\* discount percentage of 200, got a negative total cost and returned a
\* non-zero adjusted ROAS.
C13_Witness ==
    /\ app = "simple_calculator"
    /\ status = "ok"
    /\ CampaignOutOfRange(campaign)
    /\ campaign.ad_spend.n < 0
    /\ campaign.discount_percentage = Num(200)
    /\ Add(campaign.ad_spend, DiscountFormula(campaign)).n < 0
    /\ adjusted_roas # Zero

-----------------------------------------------------------------------------
(* Repeated calls.                                                         *)

-----------------------------------------------------------------------------
(* The session of web_calculator.                                          *)

\* What web_calculator holds and shows after a run, in terms of the inputs
\* of the latest run that submitted (or of the first run): the session holds
\* that campaign and nothing else, main worked with it, and every result on
\* display is its formula applied to those inputs.
RendersLastSubmitted ==
    LET in == last_inputs
        den == Add(in.ad_spend, DiscountFormula(in))
        shows(label, units) == label \in DOMAIN display => display[label] = units
    IN  /\ DOMAIN session_state = {"campaign"}
        /\ session_state["campaign"] = in
        /\ campaign = in
        /\ IF in.ad_spend.n = 0
           THEN traditional_roas = Zero
           ELSE IsQuotient(traditional_roas, in.revenue, in.ad_spend)
        /\ IF den.n = 0
           THEN adjusted_roas = Zero
           ELSE IsQuotient(adjusted_roas, in.revenue, den)
        /\ "Total Cost" \in DOMAIN display
        /\ shows("Base Ad Spend", FormatFixed(in.ad_spend, 2))
        /\ shows("New Buyer Discount", FormatFixed(DiscountFormula(in), 2))
        /\ shows("Total Cost", FormatFixed(den, 2))
        /\ shows("Traditional ROAS", FormatFixed(traditional_roas, 2))
        /\ shows("New Buyer Ad Spend", FormatFixed(NewBuyerFormula(in), 2))
        /\ shows("Adjusted ROAS", FormatFixed(adjusted_roas, 2))
        /\ shows("Discount Amount", FormatFixed(DiscountFormula(in), 2))

\* C15: in web_calculator, across any sequence of runs, the session-held
\* campaign is the only state carried over: after every run, whether it
\* submitted, was the first, or was a redraw that used the stored campaign,
\* the session holds exactly the campaign built from the inputs of the
\* latest run that submitted (or of the first run), and the results on
\* display are the formulas applied to those inputs.
C15_SessionCampaign ==
    (app = "web_calculator" /\ Ran) => RendersLastSubmitted

\* C15 witness: after a submission of revenue=100, ad_spend=500, share=1,
\* discount=100, a redraw shows a traditional ROAS of 0.20x and a total cost
\* of 505.00.
C15_Witness ==
    /\ app = "web_calculator"
    /\ status = "ok"
    /\ ~submitted
    /\ session_state["campaign"] = Campaign(Num(100), Num(500), Num(1), Num(100))
    /\ display["Traditional ROAS"] = 20
    /\ display["Total Cost"] = 50500

-----------------------------------------------------------------------------
(* The three copies of the ROAS model.                                     *)

\* C16: the three copies of the ROAS model are equivalent: on every campaign
\* any of the three programs reaches, the discount_amount, the
\* calculate_traditional_roas and the calculate_adjusted_roas of
\* roas_calculator.py, simple_calculator.py and web_calculator.py return
\* the same value (and raise alike), and the "Total Cost" the program
\* displays is the denominator its calculate_adjusted_roas divided by.
C16_CopiesEquivalent ==
    RanRoas =>
        LET c == campaign
            den == Add(c.ad_spend, DiscountOfRun)
        IN  /\ Roas_discount_amount(c) = Simple_discount_amount(c)
            /\ Simple_discount_amount(c) = Web_discount_amount(c)
            /\ Roas_calculate_traditional_roas(c) = Simple_calculate_traditional_roas(c)
            /\ Simple_calculate_traditional_roas(c) = Web_calculate_traditional_roas(c)
            /\ Roas_calculate_adjusted_roas(c) = Simple_calculate_adjusted_roas(c)
            /\ Simple_calculate_adjusted_roas(c) = Web_calculate_adjusted_roas(c)
            /\ IF den.n = 0
               THEN adjusted_roas = Zero
               ELSE IsQuotient(adjusted_roas, c.revenue, den)
            /\ "Total Cost" \in DOMAIN display =>
                  display["Total Cost"] = FormatFixed(den, 2)

\* C16 witness: roas_calculator ran on ad_spend=10 with a share and a
\* discount of 100%, shows a total cost of 20.00, and the other two copies
\* give its adjusted ROAS of 50.
C16_Witness ==
    /\ app = "roas_calculator"
    /\ status = "ok"
    /\ campaign = Campaign(Num(1000), Num(10), Num(100), Num(100))
    /\ display["Total Cost"] = 2000
    /\ adjusted_roas = Num(50)
    /\ Web_calculate_adjusted_roas(campaign).value = Num(50)
    /\ Simple_calculate_adjusted_roas(campaign).value = Num(50)

-----------------------------------------------------------------------------
(* The inputs the ROI formulas read.                                       *)

\* The fields of MerchantMetrics the claim says the formulas read.
FormulaFields ==
    {"aov", "annual_transactions", "profit_margin", "current_conversion_rate"}

\* The other fields of MerchantMetrics, and two values to give them.
OtherFields == DOMAIN DefaultMerchantMetrics \ FormulaFields
OtherValues == {Zero, Num(12345)}

\* Upgrade metrics in which every cost differs from the widgets' defaults.
OtherUpgradeMetrics ==
    [k \in DOMAIN DefaultUpgradeMetrics |-> [s \in GrowthScenario |-> Num(1)]]

\* C17: the outputs of the seven impact methods and of the summary table
\* depend only on aov, annual_transactions, profit_margin,
\* current_conversion_rate and the scenario: a calculator that agrees with
\* the one in use on those four fields and differs from it in any one other
\* field of MerchantMetrics, or in every cost of UpgradeMetrics, returns the
\* bundle the one in use returned and the summary table main got.
C17_OnlyFormulaFields ==
    /\ (app = "ROICalculator" /\ Called) =>
          \A f \in OtherFields, v \in OtherValues :
              Impact(result.feature, [calculator.merchant_metrics EXCEPT ![f] = v],
                     result.scenario) = result.bundle
    /\ (app = "roi_calculator" /\ Ran) =>
          /\ create_growth_summary_table(
                 ROICalculator(calculator.merchant_metrics, OtherUpgradeMetrics))
                = growth_summary_df
          /\ \A f \in OtherFields, v \in OtherValues :
                create_growth_summary_table(
                    ROICalculator([calculator.merchant_metrics EXCEPT ![f] = v],
                                  calculator.upgrade_metrics))
                   = growth_summary_df

\* C17 witness: the audiences method was called on a calculator whose
\* annual_gmv and customization cost are zero, not the defaults, and
\* returned a revenue impact of 98,000.00, that of the default calculator.
C17_Witness ==
    /\ app = "ROICalculator"
    /\ Called
    /\ result.feature = 4
    /\ result.scenario = "Medium"
    /\ calculator.merchant_metrics.annual_gmv = Zero
    /\ calculator.upgrade_metrics.checkout_customization_cost["Low"] = Zero
    /\ result.bundle = calculate_audiences_impact(DefaultMerchantMetrics, "Medium")
    /\ result.bundle["Revenue Impact"] = 9800000

=============================================================================
